---------------------------- MODULE Spec2Model ----------------------------
(***************************************************************************)
(* A model of bibtex_parser.py: the BibTeX clean-up script that rewrites   *)
(* journal names to their CASSI abbreviation, title-cases titles, strips   *)
(* resolver prefixes from DOIs, normalises page ranges, deletes the fields *)
(* marked for removal and writes the result.                               *)
(*                                                                         *)
(* A Python str is a sequence of one-character strings, a dict is the      *)
(* sequence of its <<key, value>> items in insertion order, a list is a    *)
(* sequence.  print() appends to stdout.                                   *)
(*                                                                         *)
(* parse_bib.py, the older script, holds the journal and the DOI branch of *)
(* fix_bib inline, statement for statement as fix_journal and fix_doi      *)
(* here; what is shown of these two holds of both scripts.                 *)
(***************************************************************************)
EXTENDS Naturals, Sequences, FiniteSets, TLC

VARIABLES
    cassi_dict,              \* dict PubTitle -> Abbreviation (create_cassi_dict)
    bib_data,                \* bib_data.entries: a list of entry dicts
    parsed,                  \* history: bib_data.entries as read_bib returned it
    lower_list,              \* global word lists of the title callback
    upper_list,
    ignore_list,
    marked_for_removal,      \* configured field names to delete
    marked_for_removal_bool, \* whether remove_extraneous runs at all
    pc,                      \* position of the script
    ei,                      \* index of the entry the running loop is at
    fi,                      \* index of the item of that entry fix_bib is at
    stdout,                  \* what print() has written, in order
    visited,                 \* history: the <<entry, item>> pairs fix_bib dispatched on
    bib_out                  \* the output file: <<>> until write_file wrote it

vars == <<cassi_dict, bib_data, parsed, lower_list, upper_list, ignore_list,
          marked_for_removal, marked_for_removal_bool, pc, ei, fi, stdout,
          visited, bib_out>>

---------------------------------------------------------------------------
(* Python str operations.                                                  *)

LowerAlpha == <<"a","b","c","d","e","f","g","h","i","j","k","l","m",
                "n","o","p","q","r","s","t","u","v","w","x","y","z">>
UpperAlpha == <<"A","B","C","D","E","F","G","H","I","J","K","L","M",
                "N","O","P","Q","R","S","T","U","V","W","X","Y","Z">>
Digits == <<"0","1","2","3","4","5","6","7","8","9">>

IsLowerChar(c) == \E n \in DOMAIN LowerAlpha : LowerAlpha[n] = c
IsUpperChar(c) == \E n \in DOMAIN UpperAlpha : UpperAlpha[n] = c

\* str.upper() and str.lower() on one character
UpperChar(c) ==
    IF IsLowerChar(c)
    THEN UpperAlpha[CHOOSE n \in DOMAIN LowerAlpha : LowerAlpha[n] = c]
    ELSE c
LowerChar(c) ==
    IF IsUpperChar(c)
    THEN LowerAlpha[CHOOSE n \in DOMAIN UpperAlpha : UpperAlpha[n] = c]
    ELSE c

upper(s) == [n \in 1..Len(s) |-> UpperChar(s[n])]
lower(s) == [n \in 1..Len(s) |-> LowerChar(s[n])]

\* str.capitalize(): first character upper-cased, the rest lower-cased
capitalize(s) == [n \in 1..Len(s) |-> IF n = 1 THEN UpperChar(s[n]) ELSE LowerChar(s[n])]

\* s.startswith(p)
startswith(s, p) == Len(p) <= Len(s) /\ SubSeq(s, 1, Len(p)) = p

\* `sub in s` for strings, re.search of a literal pattern
contains(s, sub) ==
    \E n \in 0..Len(s) : n + Len(sub) <= Len(s) /\ SubSeq(s, n + 1, n + Len(sub)) = sub

\* s.replace(old, new): every non-overlapping occurrence, left to right
RECURSIVE replace(_, _, _)
replace(s, old, new) ==
    IF Len(s) < Len(old) \/ old = <<>> THEN s
    ELSE IF startswith(s, old)
         THEN new \o replace(SubSeq(s, Len(old) + 1, Len(s)), old, new)
         ELSE <<s[1]>> \o replace(Tail(s), old, new)

\* \w of the re module, on the characters the model uses
IsWordChar(c) ==
    \/ IsLowerChar(c)
    \/ IsUpperChar(c)
    \/ \E n \in DOMAIN Digits : Digits[n] = c
    \/ c = "_"

\* the length of the longest prefix of s whose characters are all (w = TRUE)
\* or all not (w = FALSE) word characters
RECURSIVE RunLen(_, _)
RunLen(s, w) ==
    IF s = <<>> \/ IsWordChar(s[1]) # w THEN 0 ELSE 1 + RunLen(Tail(s), w)

\* re.split(r'(\W+)', s) without the empty strings it puts at the ends:
\* the maximal runs of word and of non-word characters, in order
RECURSIVE re_split(_)
re_split(s) ==
    IF s = <<>> THEN <<>>
    ELSE LET n == RunLen(s, IsWordChar(s[1]))
         IN  <<SubSeq(s, 1, n)>> \o re_split(SubSeq(s, n + 1, Len(s)))

\* sep.join(parts)
RECURSIVE join(_, _)
join(sep, parts) ==
    IF parts = <<>> THEN <<>>
    ELSE IF Len(parts) = 1 THEN parts[1]
    ELSE parts[1] \o sep \o join(sep, Tail(parts))

\* s.split(sep) for a one-character separator
RECURSIVE split(_, _)
split(s, sep) ==
    IF \A n \in 1..Len(s) : s[n] # sep THEN <<s>>
    ELSE LET n == CHOOSE m \in 1..Len(s) :
                      s[m] = sep /\ \A k \in 1..(m - 1) : s[k] # sep
         IN  <<SubSeq(s, 1, n - 1)>> \o split(SubSeq(s, n + 1, Len(s)), sep)

\* `x in l` for a list
InList(x, l) == \E n \in 1..Len(l) : l[n] = x

---------------------------------------------------------------------------
(* Python dict operations.                                                 *)

dict_keys(d) == [n \in 1..Len(d) |-> d[n][1]]
dict_values(d) == [n \in 1..Len(d) |-> d[n][2]]
HasKey(d, k) == InList(k, dict_keys(d))
\* d[k]
Get(d, k) == d[CHOOSE n \in 1..Len(d) : d[n][1] = k][2]
\* d.update({k: v}): an existing key keeps its place, a new one is appended
update(d, k, v) ==
    IF HasKey(d, k)
    THEN [n \in 1..Len(d) |-> IF d[n][1] = k THEN <<k, v>> ELSE d[n]]
    ELSE Append(d, <<k, v>>)
\* the dict without key k
RECURSIVE without(_, _)
without(d, k) ==
    IF d = <<>> THEN <<>>
    ELSE IF d[1][1] = k THEN Tail(d)
    ELSE <<d[1]>> \o without(Tail(d), k)

\* str(d.keys()): dict_keys(['k1', 'k2']).  The keys of the model hold no
\* quote, backslash or control character, so repr(k) is 'k'.
StrKeys(d) ==
    <<"d","i","c","t","_","k","e","y","s","(","[">>
    \o join(<<",", " ">>, [n \in 1..Len(d) |-> <<"'">> \o d[n][1] \o <<"'">>])
    \o <<"]", ")">>

---------------------------------------------------------------------------
(* Literals of the script.                                                 *)

s_journal == <<"j","o","u","r","n","a","l">>
s_title == <<"t","i","t","l","e">>
s_doi == <<"d","o","i">>
s_pages == <<"p","a","g","e","s">>
s_author == <<"a","u","t","h","o","r">>
s_ID == <<"I","D">>
s_ENTRYTYPE == <<"E","N","T","R","Y","T","Y","P","E">>
s_https_dx == <<"h","t","t","p","s",":","/","/","d","x",".">>
s_https_dx_doi_org == <<"h","t","t","p","s",":","/","/","d","x",".","d","o","i",".","o","r","g","/">>
s_https_doi == <<"h","t","t","p","s",":","/","/","d","o","i",".">>
s_https_doi_org == <<"h","t","t","p","s",":","/","/","d","o","i",".","o","r","g","/">>
s_10 == <<"1","0">>
s_and_others == <<"a","n","d"," ","o","t","h","e","r","s">>

\* What a normalizer hands back: the entry and the lines it printed.
Result(entry, printed) == [entry |-> entry, printed |-> printed]

\* The four warnings, by what their text names.
JournalWarning(record, id) == <<"JOURNAL abbreviation is unknown", record, id>>
DoiWarning(id) == <<"DOI does not start with '10.'", <<>>, id>>
AuthorWarning(id) == <<"Author list may be incomplete", <<>>, id>>
NoDoiWarning(id) == <<"No DOI field in entry", <<>>, id>>

---------------------------------------------------------------------------
(* The field normalizers.                                                  *)

\* The token-substituted value x of fix_journal: every token whose upper-case
\* form is a key of the table is replaced by that key's abbreviation.
JournalTokens(record, d) ==
    LET toks == re_split(record)
    IN  join(<<>>, [n \in 1..Len(toks) |->
                      IF HasKey(d, upper(toks[n])) THEN Get(d, upper(toks[n]))
                      ELSE toks[n]])

\* fix_journal with the exact-match branch assigning the abbreviation to the
\* local name only, the entry not updated
fix_journal_no_update(entry, record, type, d) ==
    IF InList(record, dict_values(d)) THEN Result(entry, <<>>)
    ELSE IF HasKey(d, record) THEN Result(entry, <<>>)
    ELSE LET x == JournalTokens(record, d)
         IN  IF contains(upper(StrKeys(d)), upper(record))
             THEN Result(update(entry, type, x), <<>>)
             ELSE IF ~HasKey(d, x)
             THEN Result(entry, <<JournalWarning(record, Get(entry, s_ID))>>)
             ELSE Result(entry, <<>>)

fix_journal(entry, record, type, d) ==
    IF InList(record, dict_values(d)) THEN Result(entry, <<>>)
    ELSE IF HasKey(d, record) THEN Result(update(entry, type, Get(d, record)), <<>>)
    ELSE LET x == JournalTokens(record, d)
         IN  IF contains(upper(StrKeys(d)), upper(record))
             THEN Result(update(entry, type, x), <<>>)
             ELSE IF ~HasKey(d, x)
             THEN Result(entry, <<JournalWarning(record, Get(entry, s_ID))>>)
             ELSE Result(entry, <<>>)

\* fix_doi blanking the field of a DOI it warns about
fix_doi_blanks(entry, record, type) ==
    IF startswith(record, s_https_dx)
    THEN Result(update(entry, type, replace(record, s_https_dx_doi_org, <<>>)), <<>>)
    ELSE IF startswith(record, s_https_doi)
    THEN Result(update(entry, type, replace(record, s_https_doi_org, <<>>)), <<>>)
    ELSE IF ~startswith(record, s_10)
    THEN Result(update(entry, type, <<>>), <<DoiWarning(Get(entry, s_ID))>>)
    ELSE Result(entry, <<>>)

fix_doi(entry, record, type) ==
    IF startswith(record, s_https_dx)
    THEN Result(update(entry, type, replace(record, s_https_dx_doi_org, <<>>)), <<>>)
    ELSE IF startswith(record, s_https_doi)
    THEN Result(update(entry, type, replace(record, s_https_doi_org, <<>>)), <<>>)
    ELSE IF ~startswith(record, s_10)
    THEN Result(entry, <<DoiWarning(Get(entry, s_ID))>>)
    ELSE Result(entry, <<>>)

\* fix_pages with the hyphen branch not looking for an existing "--"
fix_pages_no_guard(entry, record, type) ==
    IF contains(record, <<"-">>)
    THEN Result(update(entry, type, replace(record, <<"-">>, <<"-", "-">>)), <<>>)
    ELSE IF contains(record, <<" ">>) /\ ~contains(record, <<"-", "-">>)
    THEN Result(update(entry, type, replace(record, <<" ">>, <<"-", "-">>)), <<>>)
    ELSE Result(entry, <<>>)

fix_pages(entry, record, type) ==
    IF contains(record, <<"-">>) /\ ~contains(record, <<"-", "-">>)
    THEN Result(update(entry, type, replace(record, <<"-">>, <<"-", "-">>)), <<>>)
    ELSE IF contains(record, <<" ">>) /\ ~contains(record, <<"-", "-">>)
    THEN Result(update(entry, type, replace(record, <<" ">>, <<"-", "-">>)), <<>>)
    ELSE Result(entry, <<>>)

warn_author(entry, record) ==
    IF contains(lower(record), s_and_others)
    THEN Result(entry, <<AuthorWarning(Get(entry, s_ID))>>)
    ELSE Result(entry, <<>>)

\* title_check hands back a word or None: <<word>> or <<>>.
None == <<>>
Some(word) == <<word>>

\* re.search(r'\{\w+\}', word)
HasBracedWord(word) ==
    \E a \in 1..Len(word) : \E b \in (a + 2)..Len(word) :
        /\ word[a] = "{"
        /\ word[b] = "}"
        /\ \A k \in (a + 1)..(b - 1) : IsWordChar(word[k])

\* title_check asking the always-lowercase list before the always-uppercase one
title_check_lower_first(word, all_caps) ==
    IF InList(word, ignore_list) THEN Some(word)
    ELSE IF InList(lower(word), lower_list) THEN Some(lower(word))
    ELSE IF InList(upper(word), upper_list) THEN Some(upper(word))
    ELSE IF all_caps
         THEN IF HasBracedWord(word) THEN Some(word)
              ELSE Some(capitalize(lower(word)))
    ELSE None

title_check(word, all_caps) ==
    IF InList(word, ignore_list) THEN Some(word)
    ELSE IF InList(upper(word), upper_list) THEN Some(upper(word))
    ELSE IF InList(lower(word), lower_list) THEN Some(lower(word))
    ELSE IF all_caps
         THEN IF HasBracedWord(word) THEN Some(word)
              ELSE Some(capitalize(lower(word)))
    ELSE None

\* titlecase(record, callback=title_check) of the titlecase library, for a
\* one-line title of letters, digits, braces and blanks: the line is split at
\* each blank, all_caps says that the line equals its upper-case form, and a
\* word the callback answers with a non-empty string is that string.  The
\* library's own rule for the other words is left open between the word as it
\* is, capitalised and lower-cased.
TitlecaseWord(word, all_caps) ==
    LET r == title_check(word, all_caps)
    IN  IF r # None /\ r # Some(<<>>) THEN {r[1]}
        ELSE {word, capitalize(word), lower(word)}

RECURSIVE TitlecaseWords(_, _)
TitlecaseWords(words, all_caps) ==
    IF words = <<>> THEN {<<>>}
    ELSE {<<w>> \o rest : w \in TitlecaseWord(words[1], all_caps),
                          rest \in TitlecaseWords(Tail(words), all_caps)}

titlecase(record) ==
    {join(<<" ">>, ws) : ws \in TitlecaseWords(split(record, " "), upper(record) = record)}

\* fix_title: one result for each answer the library may give
fix_title(entry, record, type) ==
    {Result(update(entry, type, t), <<>>) : t \in titlecase(record)}

---------------------------------------------------------------------------
(* fix_bib, remove_extraneous, write_file and the script.                  *)

\* The body of fix_bib's inner loop for one item of an entry: the results the
\* dispatch on the lower-cased field name can have.
Dispatch(entry, type, record) ==
    IF lower(type) = s_journal THEN {fix_journal(entry, record, type, cassi_dict)}
    ELSE IF lower(type) = s_title THEN fix_title(entry, record, type)
    ELSE IF lower(type) = s_doi THEN {fix_doi(entry, record, type)}
    ELSE IF lower(type) = s_pages THEN {fix_pages(entry, record, type)}
    ELSE IF lower(type) = s_author THEN {warn_author(entry, record)}
    ELSE {Result(entry, <<>>)}

\* One iteration of `for type,record in entry.items()`.
FixField ==
    /\ pc = "fix_bib"
    /\ ei <= Len(bib_data)
    /\ fi <= Len(bib_data[ei])
    /\ \E r \in Dispatch(bib_data[ei], bib_data[ei][fi][1], bib_data[ei][fi][2]) :
          /\ bib_data' = [bib_data EXCEPT ![ei] = r.entry]
          /\ stdout' = stdout \o r.printed
    /\ visited' = Append(visited, <<ei, fi>>)
    /\ fi' = fi + 1
    /\ UNCHANGED <<cassi_dict, parsed, lower_list, upper_list, ignore_list,
                   marked_for_removal, marked_for_removal_bool, pc, ei, bib_out>>

\* The check after the inner loop: "doi" not in str(entry.keys()).lower()
MissingDoi(entry) == ~contains(lower(StrKeys(entry)), s_doi)

EndEntry ==
    /\ pc = "fix_bib"
    /\ ei <= Len(bib_data)
    /\ fi > Len(bib_data[ei])
    /\ stdout' = IF MissingDoi(bib_data[ei])
                 THEN Append(stdout, NoDoiWarning(Get(bib_data[ei], s_ID)))
                 ELSE stdout
    /\ ei' = ei + 1
    /\ fi' = 1
    /\ UNCHANGED <<cassi_dict, bib_data, parsed, lower_list, upper_list, ignore_list,
                   marked_for_removal, marked_for_removal_bool, pc, visited, bib_out>>

\* fix_bib returns; the script goes on to remove_extraneous or to write_file.
FixBibReturn ==
    /\ pc = "fix_bib"
    /\ ei > Len(bib_data)
    /\ pc' = IF marked_for_removal_bool THEN "remove_extraneous" ELSE "write_file"
    /\ ei' = 1
    /\ UNCHANGED <<cassi_dict, bib_data, parsed, lower_list, upper_list, ignore_list,
                   marked_for_removal, marked_for_removal_bool, fi, stdout, visited,
                   bib_out>>

\* The inner loop of remove_extraneous on one entry: the entry it leaves and
\* whether entry.pop(marked) raised KeyError (the loop stops there).
RECURSIVE PopMarked(_, _)
PopMarked(entry, marked) ==
    IF marked = <<>> THEN [entry |-> entry, raised |-> FALSE]
    ELSE IF HasKey(entry, lower(marked[1]))
         THEN IF HasKey(entry, marked[1])
              THEN PopMarked(without(entry, marked[1]), Tail(marked))
              ELSE [entry |-> entry, raised |-> TRUE]
    ELSE PopMarked(entry, Tail(marked))

\* One iteration of `for entry in bib_data.entries` of remove_extraneous.  A
\* KeyError is caught nowhere: the script ends there, before write_file.
RemoveExtraneous ==
    /\ pc = "remove_extraneous"
    /\ ei <= Len(bib_data)
    /\ LET r == PopMarked(bib_data[ei], marked_for_removal)
       IN  /\ bib_data' = [bib_data EXCEPT ![ei] = r.entry]
           /\ pc' = IF r.raised THEN "KeyError" ELSE pc
           /\ ei' = IF r.raised THEN ei ELSE ei + 1
    /\ UNCHANGED <<cassi_dict, parsed, lower_list, upper_list, ignore_list,
                   marked_for_removal, marked_for_removal_bool, fi, stdout, visited,
                   bib_out>>

RemoveReturn ==
    /\ pc = "remove_extraneous"
    /\ ei > Len(bib_data)
    /\ pc' = "write_file"
    /\ UNCHANGED <<cassi_dict, bib_data, parsed, lower_list, upper_list, ignore_list,
                   marked_for_removal, marked_for_removal_bool, ei, fi, stdout,
                   visited, bib_out>>

\* write_file: the writer library renders the entries into the output file.
WriteFile ==
    /\ pc = "write_file"
    /\ bib_out' = <<bib_data>>
    /\ pc' = "done"
    /\ UNCHANGED <<cassi_dict, bib_data, parsed, lower_list, upper_list, ignore_list,
                   marked_for_removal, marked_for_removal_bool, ei, fi, stdout,
                   visited>>

Next ==
    \/ FixField
    \/ EndEntry
    \/ FixBibReturn
    \/ RemoveExtraneous
    \/ RemoveReturn
    \/ WriteFile

---------------------------------------------------------------------------
(* The inputs of a run: the abbreviation table, the parsed entries and the  *)
(* settings of the script's "Variable Set-Up" section.                      *)

\* Bounds of the inputs.
MaxLen == 2          \* longest journal value drawn over JournalChars
MaxTable == 2        \* most rows of a drawn abbreviation table
MaxDoiBody == 3      \* longest DOI remainder after the drawn prefix
MaxPages == 4        \* longest page-range value
MaxTitle == 3        \* longest title drawn over TitleChars
MaxMarked == 2       \* most names in a drawn removal list
MaxEntries == 2      \* most entries of a drawn store

\* every string over chars of length at most n
Strings(chars, n) == UNION {[1..m -> chars] : m \in 0..n}

\* the settings as the script has them
s_abstract == <<"a","b","s","t","r","a","c","t">>
s_file == <<"f","i","l","e">>
s_year == <<"y","e","a","r">>
DefaultLowerList == << <<"f","o","r">>, <<"o","r">>, <<"a","n","d">>, <<"a">>,
                       <<"t","h","e">>, <<"a","l","o","n","g">>, <<"i","s">> >>
DefaultUpperList == << <<"D","N","A">>, <<"R","N","A">> >>
DefaultIgnoreList == << <<"f","f","1","9","S","B">> >>
DefaultMarked == << s_abstract, <<"e","p","r","i","n","t">>, s_file, <<"p","m","i","d">>,
                    <<"p","d","f">>,
                    <<"m","e","n","d","e","l","e","y","-","g","r","o","u","p","s">> >>

\* the table of the demonstration: one full name and its abbreviation
FullName == <<"J","o","u","r","n","a","l"," ","o","f"," ","C","h","e","m","i","c","a","l"," ",
              "T","h","e","o","r","y"," ","a","n","d"," ","C","o","m","p","u","t","a","t","i","o","n">>
Abbreviation == <<"J","."," ","C","h","e","m","."," ","T","h","e","o","r","y"," ",
                  "C","o","m","p","u","t",".">>
DemoTable == << <<FullName, Abbreviation>> >>

\* An entry as the parser builds it: the fields with lower-cased names, then
\* the entry type and the citation key.
IdOf(n) == <<"k", Digits[n + 1]>>
Entry(fields, n) == fields \o << <<s_ENTRYTYPE, <<"a","r","t","i","c","l","e">> >>, <<s_ID, IdOf(n)>> >>

\* What does not depend on the inputs: the script is about to call fix_bib.
Start ==
    /\ parsed = bib_data
    /\ pc = "fix_bib"
    /\ ei = 1
    /\ fi = 1
    /\ stdout = <<>>
    /\ visited = <<>>
    /\ bib_out = <<>>

DefaultSettings ==
    /\ lower_list = DefaultLowerList
    /\ upper_list = DefaultUpperList
    /\ ignore_list = DefaultIgnoreList
    /\ marked_for_removal = DefaultMarked
    /\ marked_for_removal_bool = TRUE

\* -- journal runs: one entry with a journal field, tables and values drawn
JournalChars == {"a", "b", "A", "z", " "}
KeyPool == { <<"A","b">>, <<"A","B">>, <<"b">> }
AbbrPool == { <<"A",".">>, <<"b">> }
\* the tables of exactly n rows with distinct full names
TablesOf(n) ==
    {t \in [1..n -> KeyPool \X AbbrPool] :
        \A a \in 1..n : \A b \in 1..n : t[a][1] = t[b][1] => a = b}
DemoJournals ==
    { <<"J","O","U","R","N","A","L"," ","O","F"," ","C","H","E","M","I","C","A","L"," ",
        "T","H","E","O","R","Y"," ","A","N","D"," ","C","O","M","P","U","T","A","T","I","O","N">>,
      <<"U","n","k","n","o","w","n"," ","O","b","s","c","u","r","e"," ","S","e","r","i","a","l">>,
      <<"C","h","e","m","i","c","a","l">>,
      FullName, Abbreviation }

InitJournal ==
    /\ \/ /\ cassi_dict \in UNION {TablesOf(n) : n \in 1..MaxTable}
          /\ \E v \in Strings(JournalChars, MaxLen) \ {<<>>} :
                bib_data = << Entry(<< <<s_journal, v>> >>, 1) >>
       \/ /\ cassi_dict = DemoTable
          /\ \E v \in DemoJournals : bib_data = << Entry(<< <<s_journal, v>> >>, 1) >>
    /\ DefaultSettings
    /\ Start

SpecJournal == InitJournal /\ [][Next]_vars

\* -- DOI runs: one entry with a doi field, a drawn prefix and remainder
DoiChars == {"1", "0", "x"}
DoiPrefixes ==
    { <<>>, s_https_dx_doi_org, s_https_doi_org,
      <<"h","t","t","p","s",":","/","/","d","x",".","e","x","a","m","p","l","e","/">>,
      <<"h","t","t","p","s",":","/","/","d","o","i",".","a","c","m",".","o","r","g","/">>,
      <<"h","t","t","p",":","/","/","d","o","i",".","o","r","g","/">> }
DoiValues ==
    {p \o b : p \in DoiPrefixes, b \in Strings(DoiChars, MaxDoiBody)}
    \cup {s_https_doi_org \o b \o s_https_doi_org : b \in Strings(DoiChars, 1)}

InitDoi ==
    /\ cassi_dict = DemoTable
    /\ \E v \in DoiValues : bib_data = << Entry(<< <<s_doi, v>> >>, 1) >>
    /\ DefaultSettings
    /\ Start

SpecDoi == InitDoi /\ [][Next]_vars

\* -- page-range runs: one entry with a pages field
PagesChars == {"1", "-", " "}

InitPages ==
    /\ cassi_dict = DemoTable
    /\ \E v \in Strings(PagesChars, MaxPages) :
          bib_data = << Entry(<< <<s_pages, v>> >>, 1) >>
    /\ DefaultSettings
    /\ Start

SpecPages == InitPages /\ [][Next]_vars

\* -- title runs: one entry with a title field, word lists and titles drawn
TitleChars == {"a", "A", " "}
DemoTitles ==
    { <<"d","n","a"," ","f","o","r"," ","f","f","1","9","S","B">>,
      <<"D","N","A"," ","F","O","R"," ","{","R","N","A","}"," ","X">>,
      <<"T","h","e"," ","r","n","a"," ","F","f","1","9","s","b">>,
      <<"F","F","1","9","S","B"," ","a","l","o","n","g">> }

InitTitle ==
    /\ cassi_dict = DemoTable
    /\ \/ /\ ignore_list \in { <<>>, << <<"a","A">> >>, << <<"A","A">> >> }
          /\ upper_list \in { <<>>, << <<"A","A">> >>, << <<"A">> >> }
          /\ lower_list \in { <<>>, << <<"a","a">> >>, << <<"a">> >> }
          /\ \E v \in Strings(TitleChars, MaxTitle) :
                bib_data = << Entry(<< <<s_title, v>> >>, 1) >>
       \/ /\ ignore_list = DefaultIgnoreList
          /\ upper_list = DefaultUpperList
          /\ lower_list = DefaultLowerList
          /\ \E v \in DemoTitles : bib_data = << Entry(<< <<s_title, v>> >>, 1) >>
    /\ marked_for_removal = DefaultMarked
    /\ marked_for_removal_bool = TRUE
    /\ Start

SpecTitle == InitTitle /\ [][Next]_vars

\* -- pruning runs: removal lists in either letter case, entries drawn
MarkPool == { s_abstract, <<"A","b","s","t","r","a","c","t">>, s_file, <<"p","m","i","d">> }
PruneFields ==
    {a \o b \o c : a \in { <<>>, << <<s_abstract, <<"x">> >> >> },
                   b \in { <<>>, << <<s_year, <<"1">> >> >> },
                   c \in { <<>>, << <<s_file, <<"x">> >> >> }}
\* the stores of exactly n entries whose fields are drawn from pool
StoresOf(pool, n) ==
    {[k \in 1..n |-> Entry(fs[k], k)] : fs \in [1..n -> pool]}

InitPrune ==
    /\ cassi_dict = DemoTable
    /\ bib_data \in UNION {StoresOf(PruneFields, n) : n \in 1..MaxEntries}
    /\ marked_for_removal \in UNION {[1..n -> MarkPool] : n \in 0..MaxMarked}
    /\ marked_for_removal_bool = TRUE
    /\ lower_list = DefaultLowerList
    /\ upper_list = DefaultUpperList
    /\ ignore_list = DefaultIgnoreList
    /\ Start

SpecPrune == InitPrune /\ [][Next]_vars

\* -- whole runs: stores of several entries that take every branch of fix_bib
s_x == <<"x">>
RecordPool ==
    { \* every field resolves, nothing to warn about
      << <<s_author, <<"a"," ","a","n","d"," ","b">> >>,
         <<s_title, <<"d","n","a"," ","a">> >>,
         <<s_journal, FullName>>,
         <<s_pages, <<"1","-","2">> >>,
         <<s_doi, <<"h","t","t","p","s",":","/","/","d","o","i",".","o","r","g","/","1","0",".","1">> >>,
         <<s_abstract, s_x>> >>,
      \* unknown journal, malformed DOI, truncated author list
      << <<s_journal, <<"U","n","k","n","o","w","n"," ","O","b","s","c","u","r","e"," ","S","e","r","i","a","l">> >>,
         <<s_doi, <<"x","1">> >>,
         <<s_author, <<"a"," ","A","N","D"," ","O","T","H","E","R","S">> >> >>,
      \* no doi field, but a field whose name holds "doi"
      << <<<<"d","o","i","u","r","l">>, s_x>>, <<s_file, s_x>> >>,
      \* no doi field at all
      << <<s_title, <<"A"," ","D","N","A">> >>, <<s_pages, <<"1"," ","2">> >> >>,
      \* no field
      << >>,
      \* already normalised
      << <<s_journal, Abbreviation>>, <<s_doi, <<"1","0",".","1">> >>, <<s_year, <<"1">> >> >> }

InitRun ==
    /\ cassi_dict = DemoTable
    /\ bib_data \in UNION {StoresOf(RecordPool, n) : n \in 0..MaxEntries}
    /\ marked_for_removal \in { DefaultMarked, << <<"A","b","s","t","r","a","c","t">>, s_file >> }
    /\ marked_for_removal_bool \in BOOLEAN
    /\ lower_list = DefaultLowerList
    /\ upper_list = DefaultUpperList
    /\ ignore_list = DefaultIgnoreList
    /\ Start

Init == InitRun

Spec == Init /\ [][Next]_vars

---------------------------------------------------------------------------
(* Vocabulary of the properties.                                           *)

\* fix_bib has dispatched on item f of entry e and is still running, so the
\* items of bib_data are those of parsed, one for one.
Done(e, f) == pc = "fix_bib" /\ (e < ei \/ (e = ei /\ f < fi))
\* fix_bib has finished entry e, the missing-DOI check included.
Ended(e) == pc # "fix_bib" \/ e < ei
\* the items fix_bib has dispatched on whose field name is `name` in any case
DoneItems(name) ==
    {x \in UNION {{<<e, f>> : f \in 1..Len(parsed[e])} : e \in 1..Len(parsed)} :
        Done(x[1], x[2]) /\ lower(parsed[x[1]][x[2]][1]) = name}
Before(x) == parsed[x[1]][x[2]][2]
After(x) == bib_data[x[1]][x[2]][2]
IdAt(x) == Get(parsed[x[1]], s_ID)
\* how many times a line was printed
Printed(w) == Cardinality({n \in 1..Len(stdout) : stdout[n] = w})
\* v differs from w at most in letter case
SameIgnoringCase(v, w) == upper(v) = upper(w)
\* s with every character c replaced by the two characters "--"
Dashed(s, c) ==
    join(<<>>, [n \in 1..Len(s) |-> IF s[n] = c THEN <<"-", "-">> ELSE <<s[n]>>])

---------------------------------------------------------------------------
(* The journal normalizer (SpecJournal).                                   *)

\* the full names of the table that v matches when letter case is ignored
CaseMatches(v) ==
    {n \in 1..Len(cassi_dict) : SameIgnoringCase(cassi_dict[n][1], v)}

\* C1: a journal value that differs from a full name of the table only in
\* letter case is replaced by that full name's abbreviation.  (Stated for the
\* values that are themselves neither a full name nor an abbreviation and that
\* match one full name only, such as the upper-cased demonstration name.)
C1_CaseVariantAbbreviated ==
    \A x \in DoneItems(s_journal) :
        ( /\ ~HasKey(cassi_dict, Before(x))
          /\ ~InList(Before(x), dict_values(cassi_dict))
          /\ Cardinality(CaseMatches(Before(x))) = 1 )
        => After(x) = cassi_dict[CHOOSE n \in CaseMatches(Before(x)) : TRUE][2]

\* C2: a journal value that is neither an abbreviation nor a full name of the
\* table, even ignoring letter case, is left unchanged and draws exactly one
\* warning naming the value and the entry.
UnknownJournal(v) ==
    \A n \in 1..Len(cassi_dict) :
        ~SameIgnoringCase(cassi_dict[n][1], v) /\ ~SameIgnoringCase(cassi_dict[n][2], v)
C2_UnknownJournalWarned ==
    \A x \in DoneItems(s_journal) :
        UnknownJournal(Before(x))
        => After(x) = Before(x) /\ Printed(JournalWarning(Before(x), IdAt(x))) = 1

\* C3 as stated: a journal value equal to a full name of the table is replaced
\* by the abbreviation the table maps that full name to.
C3_FullNameAbbreviated ==
    \A x \in DoneItems(s_journal) :
        HasKey(cassi_dict, Before(x)) => After(x) = Get(cassi_dict, Before(x))

\* C3 amended: a journal value equal to a full name of the table, and equal to
\* no abbreviation of the table, is replaced by the abbreviation the table maps
\* that full name to.
C3_FullNameNotAbbreviationAbbreviated ==
    \A x \in DoneItems(s_journal) :
        (HasKey(cassi_dict, Before(x)) /\ ~InList(Before(x), dict_values(cassi_dict)))
        => After(x) = Get(cassi_dict, Before(x))

\* fix_journal replaced a full name that is no abbreviation by its abbreviation
C3_Witness ==
    \E x \in DoneItems(s_journal) :
        /\ HasKey(cassi_dict, Before(x))
        /\ ~InList(Before(x), dict_values(cassi_dict))
        /\ After(x) = Get(cassi_dict, Before(x))
        /\ After(x) # Before(x)

---------------------------------------------------------------------------
(* The DOI normalizer (SpecDoi).                                           *)

\* C4: a DOI value that begins with neither resolver prefix nor "10" is left
\* unchanged and draws exactly one malformed-identifier warning; a value that
\* begins with "10" is left unchanged and draws none.
C4_MalformedDoiWarned ==
    \A x \in DoneItems(s_doi) :
        /\ ( /\ ~startswith(Before(x), s_https_dx_doi_org)
             /\ ~startswith(Before(x), s_https_doi_org)
             /\ ~startswith(Before(x), s_10) )
           => After(x) = Before(x) /\ Printed(DoiWarning(IdAt(x))) = 1
        /\ startswith(Before(x), s_10)
           => After(x) = Before(x) /\ Printed(DoiWarning(IdAt(x))) = 0

---------------------------------------------------------------------------
(* The missing-DOI check (Spec).                                           *)

\* C5: once fix_bib is through with an entry, the missing-identifier warning
\* naming it has been printed if and only if the entry has no field whose
\* lower-cased name is exactly "doi".
C5_MissingDoiWarnedIffNoDoiField ==
    \A e \in 1..Len(parsed) :
        Ended(e)
        => ( Printed(NoDoiWarning(Get(parsed[e], s_ID))) >= 1
             <=> ~\E f \in 1..Len(parsed[e]) : lower(parsed[e][f][1]) = s_doi )

---------------------------------------------------------------------------
(* The field pruner (SpecPrune).                                           *)

\* the entry without the items whose name matches a name of `marked` when
\* letter case is ignored
RECURSIVE Pruned(_, _)
Pruned(entry, marked) ==
    IF entry = <<>> THEN <<>>
    ELSE IF \E n \in 1..Len(marked) : lower(marked[n]) = lower(entry[1][1])
         THEN Pruned(Tail(entry), marked)
         ELSE <<entry[1]>> \o Pruned(Tail(entry), marked)

\* C6: whatever the letter case of the configured names, remove_extraneous
\* deletes from every entry exactly the fields whose name matches a configured
\* name case-insensitively, never ends in an error, and changes nothing when
\* applied a second time.
C6_PruneIgnoresCase ==
    [][ (pc = "remove_extraneous" /\ ei <= Len(bib_data))
        => /\ pc' # "KeyError"
           /\ bib_data'[ei] = Pruned(bib_data[ei], marked_for_removal)
           /\ PopMarked(bib_data'[ei], marked_for_removal)
                = [entry |-> bib_data'[ei], raised |-> FALSE] ]_vars

---------------------------------------------------------------------------
(* The page-range normalizer (SpecPages).                                  *)

\* C7: applying fix_pages to its own result changes nothing; a value holding
\* "--" is unchanged, a value with a hyphen and no "--" has every hyphen
\* replaced by "--", a value with a blank and no hyphen has every blank
\* replaced by "--".
C7_PagesIdempotent ==
    \A x \in DoneItems(s_pages) :
        /\ fix_pages(bib_data[x[1]], After(x), parsed[x[1]][x[2]][1])
             = Result(bib_data[x[1]], <<>>)
        /\ contains(Before(x), <<"-", "-">>) => After(x) = Before(x)
        /\ (contains(Before(x), <<"-">>) /\ ~contains(Before(x), <<"-", "-">>))
           => After(x) = Dashed(Before(x), "-")
        /\ (contains(Before(x), <<" ">>) /\ ~contains(Before(x), <<"-">>))
           => After(x) = Dashed(Before(x), " ")
        /\ (~contains(Before(x), <<" ">>) /\ ~contains(Before(x), <<"-">>))
           => After(x) = Before(x)

\* fix_pages turned "1 1" into "1--1", which a second application keeps
C7_Witness ==
    \E x \in DoneItems(s_pages) :
        /\ Before(x) = <<"1", " ", "1">>
        /\ After(x) = <<"1", "-", "-", "1">>
        /\ fix_pages(bib_data[x[1]], After(x), s_pages).entry = bib_data[x[1]]

---------------------------------------------------------------------------
(* The title callback (SpecTitle).                                         *)

\* the words title_check forces the case of
Forced(word) ==
    \/ InList(word, ignore_list)
    \/ InList(upper(word), upper_list)
    \/ InList(lower(word), lower_list)

\* C9: title_check answers a forced-case word with a word that it answers
\* with itself, under either value of all_caps; the never-modify list wins
\* over the always-uppercase list, which wins over the always-lowercase list.
C9_ForcedCaseStable ==
    \A x \in DoneItems(s_title) :
        LET words == split(Before(x), " ")
            all_caps == upper(Before(x)) = Before(x)
        IN  \A n \in 1..Len(words) :
                LET w == words[n]
                    r == title_check(w, all_caps)
                IN  Forced(w)
                    => /\ r # None
                       /\ \A b \in BOOLEAN : title_check(r[1], b) = r
                       /\ InList(w, ignore_list) => r = Some(w)
                       /\ (~InList(w, ignore_list) /\ InList(upper(w), upper_list))
                          => r = Some(upper(w))
                       /\ ( /\ ~InList(w, ignore_list)
                            /\ ~InList(upper(w), upper_list)
                            /\ InList(lower(w), lower_list) )
                          => r = Some(lower(w))

\* fix_title ran on a title with a word in both the always-uppercase and the
\* always-lowercase list: the title now holds it upper-cased
C9_Witness ==
    \E x \in DoneItems(s_title) :
        LET words == split(Before(x), " ")
        IN  \E n \in 1..Len(words) :
                /\ InList(upper(words[n]), upper_list)
                /\ InList(lower(words[n]), lower_list)
                /\ ~InList(words[n], ignore_list)
                /\ words[n] # upper(words[n])
                /\ split(After(x), " ")[n] = upper(words[n])
                /\ title_check(upper(words[n]), FALSE) = Some(upper(words[n]))

---------------------------------------------------------------------------
(* The whole run (Spec).                                                   *)

\* every <<entry, item>> pair of the parsed store, in store order
RECURSIVE ItemsFrom(_)
ItemsFrom(e) ==
    IF e > Len(parsed) THEN <<>>
    ELSE [f \in 1..Len(parsed[e]) |-> <<e, f>>] \o ItemsFrom(e + 1)

\* the warnings entry e of the parsed store calls for: those of its items in
\* order, then the missing-DOI one
RECURSIVE ItemWarnings(_, _)
ItemWarnings(e, f) ==
    IF f > Len(parsed[e]) THEN <<>>
    ELSE (CHOOSE r \in Dispatch(parsed[e], parsed[e][f][1], parsed[e][f][2]) : TRUE).printed
         \o ItemWarnings(e, f + 1)
RECURSIVE WarningsFrom(_)
WarningsFrom(e) ==
    IF e > Len(parsed) THEN <<>>
    ELSE ItemWarnings(e, 1)
         \o (IF MissingDoi(parsed[e]) THEN <<NoDoiWarning(Get(parsed[e], s_ID))>> ELSE <<>>)
         \o WarningsFrom(e + 1)

\* fix_bib dispatches on every item of every entry once, in store order, and
\* is through all of them when it returns
VisitedInOrder ==
    /\ Len(visited) <= Len(ItemsFrom(1))
    /\ visited = SubSeq(ItemsFrom(1), 1, Len(visited))
    /\ pc # "fix_bib" => visited = ItemsFrom(1)

\* C8: the run never stops before write_file; fix_bib dispatches on every item
\* of every entry once, in store order, whatever was printed on the way; when
\* the output is written, every warning the store calls for has been printed.
C8_RunReachesWrite ==
    /\ pc # "KeyError"
    /\ VisitedInOrder
    /\ bib_out # <<>> => stdout = WarningsFrom(1)

\* what of C8 does not rest on remove_extraneous (holds under Spec)
C8_ApartFromPruning ==
    /\ VisitedInOrder
    /\ bib_out # <<>> => stdout = WarningsFrom(1)
\* C8 for removal lists in lower case, such as the script's own (holds under
\* Spec and SpecPrune)
C8_WithLowerCaseList ==
    (\A n \in 1..Len(marked_for_removal) : lower(marked_for_removal[n]) = marked_for_removal[n])
    => C8_RunReachesWrite

\* fix_bib's frame: the entries, their keys in order, and every value but
\* those of the journal, title, doi and pages fields are as parsed
FrameKept ==
    /\ Len(bib_data) = Len(parsed)
    /\ \A e \in 1..Len(parsed) :
          /\ Len(bib_data[e]) = Len(parsed[e])
          /\ \A f \in 1..Len(parsed[e]) :
                /\ bib_data[e][f][1] = parsed[e][f][1]
                /\ lower(parsed[e][f][1]) \notin {s_journal, s_title, s_doi, s_pages}
                   => bib_data[e][f][2] = parsed[e][f][2]

\* C10: while fix_bib runs, the store keeps its entries, their identifiers and
\* field names, and the value of every field not named journal, title, doi or
\* pages; a step that prints a warning leaves the store as it was.
C10_FixBibFrame ==
    [][ pc = "fix_bib"
        => /\ FrameKept'
           /\ stdout' # stdout => bib_data' = bib_data ]_vars

\* fix_bib is through a store in which it rewrote a field and warned
C10_Witness ==
    /\ pc = "remove_extraneous"
    /\ ei = 1
    /\ bib_data # parsed
    /\ FrameKept
    /\ \E n \in 1..Len(stdout) : stdout[n][1] = DoiWarning(<<>>)[1]
    /\ \E n \in 1..Len(stdout) : stdout[n][1] = AuthorWarning(<<>>)[1]

=============================================================================
